---- MODULE Spec2Model ----
(***************************************************************************)
(* nodecmp: intersect the peer sets of N snapshot files and probe every    *)
(* common peer for its version (src/main.go).                              *)
(***************************************************************************)
EXTENDS Integers, Sequences, FiniteSets, TLC

\* ------------------------------------------------------------------ bounds
MaxArgs == 3        \* command-line paths given to the program: 0..MaxArgs
MaxEntries == 2     \* entries of one snapshot's JSON array: 0..MaxEntries
MaxPeerLen == 2     \* small length prefixes a peer may declare: 0..MaxPeerLen

Addr == {"a", "b"}  \* the host:port strings occurring in the snapshots

\* ------------------------------------------------------------------ errors
errInvalidArgs == "provided args are invalid: "
errInvalidMD == "error while reading metadata: "
errDecode == "error while decoding entries: "
Nil == "nil"
IOErr == "io error"

\* ------------------------------------------------------------------ files
\* A snapshot is a byte stream, modelled as tokens: a line break, a run of
\* non-newline bytes that is no JSON value (shorter than the 4096 bytes of
\* bufio's buffer), or one JSON array of entries.
NL == [t |-> "nl"]
Txt == [t |-> "txt"]
Json(arr) == [t |-> "json", v |-> arr]

nodeEntry == [Address : Addr, Outbound : BOOLEAN]

Arrays == UNION {[1..n -> nodeEntry] : n \in 0..MaxEntries}

MetaLines == 3

NLs(k) == [j \in 1..k |-> NL]

Tails == {<<>>, <<Txt>>} \cup {<<Json(arr)>> : arr \in Arrays}

Files ==
    {[open |-> FALSE, data |-> <<>>]}
        \cup {[open |-> TRUE, data |-> NLs(k) \o tl] : k \in 0..MetaLines, tl \in Tails}

\* ------------------------------------------------------------------ maps
EmptyMap == [x \in {} |-> TRUE]

MapPut(m, key, val) ==
    [x \in (DOMAIN m) \cup {key} |-> IF x = key THEN val ELSE m[x]]

\* ------------------------------------------------------------------ loader
Drop(s, n) == SubSeq(s, n + 1, Len(s))

\* bufio.Reader.ReadLine: io.EOF at the end of the stream, else the bytes up
\* to and including the next line break, or all the rest when there is none.
RECURSIVE LineEnd(_, _)
LineEnd(s, k) ==
    IF k > Len(s) THEN Len(s)
    ELSE IF s[k].t = "nl" THEN k
    ELSE LineEnd(s, k + 1)

ReadLine(s) ==
    IF s = <<>> THEN [err |-> "EOF", rest |-> s]
    ELSE [err |-> Nil, rest |-> Drop(s, LineEnd(s, 1))]

\* the loop of loadNodes that discards the metadata lines
RECURSIVE SkipLines(_, _)
SkipLines(s, n) ==
    IF n = 0 THEN [err |-> Nil, rest |-> s]
    ELSE LET r == ReadLine(s)
         IN  IF r.err # Nil THEN r ELSE SkipLines(r.rest, n - 1)

\* json.Decoder.Decode into []nodeEntry: leading white space is skipped, one
\* value is read, what follows it is left unread.
RECURSIVE Decode(_)
Decode(s) ==
    IF s = <<>> THEN [err |-> "EOF", entries |-> <<>>]
    ELSE IF s[1].t = "nl" THEN Decode(Tail(s))
    ELSE IF s[1].t = "json" THEN [err |-> Nil, entries |-> s[1].v]
    ELSE [err |-> "invalid character", entries |-> <<>>]

\* a loop that keeps the first entry of an address
RECURSIVE entrySetFirstWins(_, _, _)
entrySetFirstWins(entries, k, m) ==
    IF k > Len(entries) THEN m
    ELSE IF entries[k].Address \in DOMAIN m THEN entrySetFirstWins(entries, k + 1, m)
    ELSE entrySetFirstWins(entries, k + 1, MapPut(m, entries[k].Address, entries[k].Outbound))

\* the loop that builds the set out of the entries, in array order
RECURSIVE entrySet(_, _, _)
entrySet(entries, k, m) ==
    IF k > Len(entries) THEN m
    ELSE entrySet(entries, k + 1, MapPut(m, entries[k].Address, entries[k].Outbound))

\* loadNodes: err names the message printed before os.Exit(1); Nil is a return
loadNodes(f) ==
    IF ~f.open THEN [err |-> errInvalidArgs, set |-> EmptyMap]
    ELSE LET md == SkipLines(f.data, MetaLines)
         IN  IF md.err # Nil THEN [err |-> errInvalidMD, set |-> EmptyMap]
             ELSE LET d == Decode(md.rest)
                  IN  IF d.err # Nil THEN [err |-> errDecode, set |-> EmptyMap]
                      ELSE [err |-> Nil, set |-> entrySet(d.entries, 1, EmptyMap)]

\* ------------------------------------------------------------------ intersect
\* intersect without the membership test in m2
intersectNoTest(m1, m2) ==
    [key \in DOMAIN m1 |-> m1[key]]

\* intersect storing the value of m2 instead of the value of m1
intersectRightValue(m1, m2) ==
    [key \in {k \in DOMAIN m1 : k \in DOMAIN m2} |-> m2[key]]

\* intersect testing the value m2[key] instead of the existence of the key
intersectByValue(m1, m2) ==
    [key \in {k \in DOMAIN m1 : k \in DOMAIN m2 /\ m2[k]} |-> m1[key]]

intersect(m1, m2) ==
    [key \in {k \in DOMAIN m1 : k \in DOMAIN m2} |-> m1[key]]

\* Go maps are objects: heap is the sequence of the maps made so far and a
\* map variable holds the index of one of them.
\* an intersect that deletes from m1 the keys missing in m2 and returns m1
intersectInPlace(h, r1, r2) ==
    [heap |-> [h EXCEPT ![r1] = intersect(h[r1], h[r2])], ref |-> r1]

\* intersect on the heap: make(map[string]bool) adds the object intersected,
\* the loop writes into it alone, and it is returned
intersectMaps(h, r1, r2) ==
    [heap |-> Append(h, intersect(h[r1], h[r2])), ref |-> Len(h) + 1]

\* ------------------------------------------------------------------ wire
Min(x, y) == IF x < y THEN x ELSE y

Zeros(n) == [j \in 1..n |-> 0]

Take(s, n) == SubSeq(s, 1, n)

PrefixSize == 8

\* binary.LittleEndian.PutUint64 into the 8-byte buffer of writePrefix
RECURSIVE LittleEndian(_, _)
LittleEndian(v, n) ==
    IF n = 0 THEN <<>> ELSE <<v % 256>> \o LittleEndian(v \div 256, n - 1)

\* PutUint64 of binary.BigEndian instead
RECURSIVE BigEndian(_, _)
BigEndian(v, n) ==
    IF n = 0 THEN <<>> ELSE BigEndian(v \div 256, n - 1) \o <<v % 256>>

PutUint64BigEndian(v) == BigEndian(v, PrefixSize)

PutUint64(v) == LittleEndian(v, PrefixSize)

\* binary.LittleEndian.Uint64 of a buffer whose four high bytes are zero
Uint64(b) == b[1] + 256 * (b[2] + 256 * (b[3] + 256 * b[4]))

HandshakeLen == 13

ownVersion == <<49, 46, 50, 46, 48>>     \* []byte("1.2.0")

\* make([]byte, prefix): a length of 2^48 or more panics (len out of range);
\* a length below 2^16 is allocated; between them the allocation succeeds or
\* the runtime dies out of memory, as the machine decides
makeOutcomes(b) ==
    IF b[7] # 0 \/ b[8] # 0 THEN {"fatal"}
    ELSE IF b[3] = 0 /\ b[4] = 0 /\ b[5] = 0 /\ b[6] = 0 THEN {"ok"}
    ELSE {"ok", "fatal"}

\* what a peer may answer: a length prefix, small or 2^63, followed by any few
\* version bytes, whether or not as many as the prefix declares
Huge == <<0, 0, 0, 0, 0, 0, 0, 128>>

PeerPrefixes == {PutUint64(n) : n \in 0..MaxPeerLen} \cup {Huge}

VerBytes == {57}                         \* the bytes of a peer's version: "9"

PeerData == UNION {[1..n -> VerBytes] : n \in 0..MaxPeerLen}

PeerReplies == {p \o d : p \in PeerPrefixes, d \in PeerData}

\* a nodeVersion that returns string(version[:n]), the bytes Read delivered
versionStringRead(size, data, n) == Take(data, n)

\* string(version) once Read has put the first n bytes of data into the
\* buffer made with size zero bytes
versionString(size, data, n) == Take(data, n) \o Zeros(size - n)

\* net.Conn.Read into a buffer of size bytes with avail bytes in flight
\* returns some n in 1..Min(size, avail), since TCP delivers a stream in
\* pieces; the two extremes are taken: a single byte, or all that fits
ReadCounts(size, avail) == {1, Min(size, avail)}

\* ------------------------------------------------------------------ state
VARIABLES
    nargs,      \* len(os.Args[1:])
    mpc,        \* where main is
    idx,        \* number of paths loaded so far
    loaded,     \* the peer sets returned by loadNodes in the loop, S1..Sidx
                \* (temporaries of the loop, gone once main has left it)
    file,       \* the snapshot the latest call of loadNodes read
    heap,       \* the map objects made by loadNodes and intersect
    refs,       \* which objects entryMap, S1..Sidx and the successive values
                \* of entryMap are
    entryMap,   \* main's entryMap
    pending,    \* keys of entryMap the range loop has not visited yet
    wg,         \* the WaitGroup counter
    tpc,        \* where the goroutine started for an address is
    conn,       \* the TCP connection of nodeVersion(a): none or open
    peer,       \* the peer's end of the connection: quiet, replied or closed
    inb,        \* reply bytes of the peer not yet read from the connection
    prefix,     \* the 8-byte buffer filled by readPrefix
    res,        \* what nodeVersion(a) returned: version and err
    io,         \* the calls made on the connection of a, in order
    out,        \* what was printed to standard output, in order
    two         \* the state of the two-file program (src/unnamed/part_000)

vars ==
    <<nargs, mpc, idx, loaded, file, heap, refs, entryMap, pending, wg, tpc,
      conn, peer, inb, prefix, res, io, out, two>>

\* what the load loop of main works on, besides entryMap
loadVars == <<loaded, file, heap, refs>>

NoRefs == [entry |-> 0, loaded |-> <<>>, results |-> <<>>]

mainVars == <<nargs, mpc, idx, loadVars, entryMap, pending>>

NoFile == [open |-> FALSE, data |-> <<>>]

NoResult == [version |-> <<>>, err |-> "pending"]

Msg(text) == [kind |-> "msg", a |-> text, v |-> <<>>]

\* a goroutine that prints the loop's variable instead of its own argument
LineOfLoopVariable(a, version) ==
    [kind |-> "line", a |-> CHOOSE x \in Addr : x # a, v |-> version]

Line(a, version) == [kind |-> "line", a |-> a, v |-> version]

Call(op, arg, n, err) == [op |-> op, arg |-> arg, n |-> n, err |-> err]

\* the two-file program before it starts with n paths, and when it is not run
TwoStart(n) ==
    [pc |-> "start", nargs |-> n, files |-> <<>>, r |-> <<>>, i |-> 0,
     entries |-> <<>>, entryMap |-> {}, k |-> 0, out |-> <<>>]

TwoIdle == [TwoStart(0) EXCEPT !.pc = "idle"]

Init ==
    /\ two = TwoIdle
    /\ nargs \in 0..MaxArgs
    /\ mpc = "start"
    /\ idx = 0
    /\ loaded = <<>>
    /\ file = NoFile
    /\ heap = <<>>
    /\ refs = NoRefs
    /\ entryMap = EmptyMap
    /\ pending = {}
    /\ wg = 0
    /\ tpc = [a \in Addr |-> "none"]
    /\ conn = [a \in Addr |-> "none"]
    /\ peer = [a \in Addr |-> "quiet"]
    /\ inb = [a \in Addr |-> <<>>]
    /\ prefix = [a \in Addr |-> Zeros(PrefixSize)]
    /\ res = [a \in Addr |-> NoResult]
    /\ io = [a \in Addr |-> <<>>]
    /\ out = <<>>

taskVars == <<wg, tpc, conn, peer, inb, prefix, res, io>>

\* ------------------------------------------------------------------ main
\* fewer than 2 paths: printUsage and return
Usage ==
    /\ mpc = "start"
    /\ nargs < 2
    /\ mpc' = "returned"
    /\ out' = Append(out, Msg("Usage: nodecmp [path1] [path2] ... [pathN]"))
    /\ UNCHANGED <<nargs, idx, loadVars, entryMap, pending, taskVars, two>>

\* a loader that prints its message and returns what it has, without os.Exit
LoadFailsNoExit(r) ==
    /\ mpc' = "range"
    /\ pending' = DOMAIN entryMap
    /\ loaded' = <<>>
    /\ out' = Append(out, Msg(r.err))
    /\ UNCHANGED <<nargs, idx, heap, refs, entryMap, taskVars, two>>

\* loadNodes failed: its message is printed and os.Exit(1) ends the process
LoadFails(r) ==
    /\ mpc' = "exited"
    /\ out' = Append(out, Msg(r.err))
    /\ UNCHANGED <<nargs, idx, loaded, heap, refs, entryMap, pending, taskVars, two>>

\* entryMap := loadNodes(args[0])
LoadFirst ==
    /\ mpc = "start"
    /\ nargs >= 2
    /\ \E f \in Files :
          LET r == loadNodes(f)
          IN  /\ file' = f
              /\ IF r.err # Nil THEN LoadFails(r)
                 ELSE
                   /\ heap' = <<r.set>>
                   /\ refs' = [entry |-> 1, loaded |-> <<1>>, results |-> <<1>>]
                   /\ entryMap' = r.set
                   /\ loaded' = <<r.set>>
                   /\ idx' = 1
                   /\ mpc' = "fold"
                   /\ UNCHANGED <<nargs, pending, taskVars, out, two>>

\* one turn of the loop: entryMap = intersect(entryMap, loadNodes(path))
LoadNext ==
    /\ mpc = "fold"
    /\ idx < nargs
    /\ \E f \in Files :
          LET r == loadNodes(f)
          IN  /\ file' = f
              /\ IF r.err # Nil THEN LoadFails(r)
                 ELSE
                   /\ LET got == Len(heap) + 1
                          made == intersectMaps(Append(heap, r.set), refs.entry, got)
                      IN  /\ heap' = made.heap
                          /\ refs' = [entry |-> made.ref,
                                      loaded |-> Append(refs.loaded, got),
                                      results |-> Append(refs.results, made.ref)]
                          /\ entryMap' = made.heap[made.ref]
                   /\ loaded' = Append(loaded, r.set)
                   /\ idx' = idx + 1
                   /\ UNCHANGED <<nargs, mpc, pending, taskVars, out, two>>

\* the loop over the paths ends; the range over entryMap begins (no other
\* map can be reached any more: entryMap's object is the one left)
FoldDone ==
    /\ mpc = "fold"
    /\ idx = nargs
    /\ mpc' = "range"
    /\ pending' = DOMAIN entryMap
    /\ loaded' = <<>>
    /\ file' = NoFile
    /\ heap' = <<entryMap>>
    /\ refs' = [entry |-> 1, loaded |-> <<>>, results |-> <<>>]
    /\ UNCHANGED <<nargs, idx, entryMap, taskVars, out, two>>

\* a range loop that may visit a key again
SpawnAgain(a) ==
    /\ mpc = "range"
    /\ a \in pending
    /\ wg' = wg + 1
    /\ tpc' = [tpc EXCEPT ![a] = "dial"]
    /\ UNCHANGED <<nargs, mpc, idx, loadVars, entryMap, pending, conn, peer, inb, prefix, res, io, out, two>>

\* wg.Add(1); go func(a string) {...}(address), keys in any order
Spawn(a) ==
    /\ mpc = "range"
    /\ a \in pending
    /\ pending' = pending \ {a}
    /\ wg' = wg + 1
    /\ tpc' = [tpc EXCEPT ![a] = "dial"]
    /\ UNCHANGED <<nargs, mpc, idx, loadVars, entryMap, conn, peer, inb, prefix, res, io, out, two>>

\* the range is over: main calls wg.Wait()
Wait ==
    /\ mpc = "range"
    /\ pending = {}
    /\ mpc' = "wait"
    /\ UNCHANGED <<nargs, idx, loadVars, entryMap, pending, taskVars, out, two>>

\* a Wait that returns while one task is still counted
WaitReadyEarly(counter) == counter <= 1

WaitReady(counter) == counter = 0

\* wg.Wait() returns and so does main
WaitReturns ==
    /\ mpc = "wait"
    /\ WaitReady(wg)
    /\ mpc' = "returned"
    /\ UNCHANGED <<nargs, idx, loadVars, entryMap, pending, taskVars, out, two>>

\* the process runs goroutines while main is in the range loop or in wg.Wait
Running == mpc \in {"range", "wait"}

\* ------------------------------------------------------------------ nodeVersion
\* a return of nodeVersion(a) to the goroutine that called it
Return(a, version, err) ==
    /\ res' = [res EXCEPT ![a] = [version |-> version, err |-> err]]
    /\ tpc' = [tpc EXCEPT ![a] = "returned"]

Log(a, call) == io' = [io EXCEPT ![a] = Append(@, call)]

\* dialer.Dial("tcp", addr): a connection, or an error within the minute
Dial(a) ==
    /\ Running
    /\ tpc[a] = "dial"
    /\ \E up \in BOOLEAN :
          IF up
          THEN /\ conn' = [conn EXCEPT ![a] = "open"]
               /\ Log(a, Call("Dial", <<>>, 0, Nil))
               /\ tpc' = [tpc EXCEPT ![a] = "sendLen"]
               /\ UNCHANGED res
          ELSE /\ Log(a, Call("Dial", <<>>, 0, IOErr))
               /\ Return(a, <<>>, IOErr)
               /\ UNCHANGED conn
    /\ UNCHANGED <<mainVars, wg, peer, inb, prefix, out, two>>

\* conn.Write(data) at step at: all of data is written, or the write fails
\* (the count a failed write returns is not looked at)
Send(a, at, data, next) ==
    /\ Running
    /\ tpc[a] = at
    /\ \E ok \in BOOLEAN :
          IF ok
          THEN /\ Log(a, Call("Write", data, Len(data), Nil))
               /\ tpc' = [tpc EXCEPT ![a] = next]
               /\ UNCHANGED res
          ELSE /\ Log(a, Call("Write", data, 0, IOErr))
               /\ Return(a, <<>>, IOErr)
    /\ UNCHANGED <<mainVars, wg, conn, peer, inb, prefix, out, two>>

writePrefix(a, at, length, next) == Send(a, at, PutUint64(length), next)

\* Send message prefix
SendLen(a) == writePrefix(a, "sendLen", HandshakeLen, "sendOwnLen")

\* Send own version prefix
SendOwnLen(a) == writePrefix(a, "sendOwnLen", Len(ownVersion), "sendOwn")

\* Send own version
SendOwn(a) == Send(a, "sendOwn", ownVersion, "recvPrefix")

\* the peer may put a reply on the wire once the handshake is sent ...
PeerAnswers(a) ==
    /\ Running
    /\ tpc[a] = "recvPrefix"
    /\ peer[a] = "quiet"
    /\ \E reply \in PeerReplies : inb' = [inb EXCEPT ![a] = reply]
    /\ peer' = [peer EXCEPT ![a] = "replied"]
    /\ UNCHANGED <<mainVars, wg, tpc, conn, prefix, res, io, out, two>>

\* ... and may close its end while the client waits in a Read; it need not do
\* either, and then keeps the connection open without sending anything
PeerCloses(a) ==
    /\ Running
    /\ tpc[a] \in {"recvPrefix", "recvVersion"}
    /\ peer[a] # "closed"
    /\ inb[a] = <<>>
    /\ peer' = [peer EXCEPT ![a] = "closed"]
    /\ UNCHANGED <<mainVars, wg, tpc, conn, inb, prefix, res, io, out, two>>

\* readPrefix: one r.Read into 8 zero bytes. Read blocks while nothing is in
\* flight and the peer keeps the connection open; no deadline is set.
RecvPrefix(a) ==
    /\ Running
    /\ tpc[a] = "recvPrefix"
    /\ IF inb[a] = <<>>
       THEN /\ peer[a] = "closed"
            /\ Log(a, Call("Read", PrefixSize, 0, "EOF"))
            /\ Return(a, <<>>, "EOF")
            /\ UNCHANGED <<inb, prefix>>
       ELSE \E n \in ReadCounts(PrefixSize, Len(inb[a])) :
               /\ prefix' = [prefix EXCEPT ![a] = Take(inb[a], n) \o Zeros(PrefixSize - n)]
               /\ inb' = [inb EXCEPT ![a] = Drop(@, n)]
               /\ Log(a, Call("Read", PrefixSize, n, Nil))
               /\ tpc' = [tpc EXCEPT ![a] = "alloc"]
               /\ UNCHANGED res
    /\ UNCHANGED <<mainVars, wg, conn, peer, out, two>>

\* version := make([]byte, prefix): a panic or a fatal error in a goroutine
\* ends the whole process
Alloc(a) ==
    /\ Running
    /\ tpc[a] = "alloc"
    /\ \E o \in makeOutcomes(prefix[a]) :
          IF o = "ok"
          THEN /\ tpc' = [tpc EXCEPT ![a] = "recvVersion"]
               /\ UNCHANGED mpc
          ELSE /\ mpc' = "panic"
               /\ UNCHANGED tpc
    /\ UNCHANGED <<nargs, idx, loadVars, entryMap, pending, wg, conn, peer, inb, prefix, res, io, out, two>>

\* conn.Read(version) and the return of string(version): a Read into an empty
\* buffer returns 0, nil at once; bytes not delivered stay zero
RecvVersion(a) ==
    /\ Running
    /\ tpc[a] = "recvVersion"
    /\ LET size == Uint64(prefix[a])
       IN  IF size = 0
           THEN /\ Log(a, Call("Read", 0, 0, Nil))
                /\ Return(a, <<>>, Nil)
                /\ UNCHANGED inb
           ELSE IF inb[a] = <<>>
           THEN /\ peer[a] = "closed"
                /\ Log(a, Call("Read", size, 0, "EOF"))
                /\ Return(a, <<>>, "EOF")
                /\ UNCHANGED inb
           ELSE \E n \in ReadCounts(size, Len(inb[a])) :
                   /\ Log(a, Call("Read", size, n, Nil))
                   /\ Return(a, versionString(size, inb[a], n), Nil)
                   /\ inb' = [inb EXCEPT ![a] = Drop(@, n)]
    /\ UNCHANGED <<mainVars, wg, conn, peer, prefix, out, two>>

\* ------------------------------------------------------------------ goroutine
\* a goroutine that prints whatever nodeVersion returned
ShouldPrintAlways(err) == TRUE

ShouldPrint(err) == err = Nil

\* if err == nil { fmt.Printf("%v -> %v\n", a, version) }
Report(a) ==
    /\ Running
    /\ tpc[a] = "returned"
    /\ out' = IF ShouldPrint(res[a].err) THEN Append(out, Line(a, res[a].version)) ELSE out
    /\ tpc' = [tpc EXCEPT ![a] = "reported"]
    /\ UNCHANGED <<mainVars, wg, conn, peer, inb, prefix, res, io, two>>

\* wg.Done()
Done(a) ==
    /\ Running
    /\ tpc[a] = "reported"
    /\ wg' = wg - 1
    /\ tpc' = [tpc EXCEPT ![a] = "finished"]
    /\ UNCHANGED <<mainVars, conn, peer, inb, prefix, res, io, out, two>>

\* ------------------------------------------------------------------ program
Next ==
    \/ Usage
    \/ LoadFirst
    \/ LoadNext
    \/ FoldDone
    \/ Wait
    \/ WaitReturns
    \/ \E a \in Addr : Spawn(a)
    \/ \E a \in Addr : Dial(a)
    \/ \E a \in Addr : SendLen(a)
    \/ \E a \in Addr : SendOwnLen(a)
    \/ \E a \in Addr : SendOwn(a)
    \/ \E a \in Addr : PeerAnswers(a)
    \/ \E a \in Addr : PeerCloses(a)
    \/ \E a \in Addr : RecvPrefix(a)
    \/ \E a \in Addr : Alloc(a)
    \/ \E a \in Addr : RecvVersion(a)
    \/ \E a \in Addr : Report(a)
    \/ \E a \in Addr : Done(a)

Spec == Init /\ [][Next]_vars

\* the steps of main, and the steps of the goroutine of one address
Main == Usage \/ LoadFirst \/ LoadNext \/ FoldDone \/ Wait \/ WaitReturns \/ \E a \in Addr : Spawn(a)

Probe(a) ==
    \/ Dial(a) \/ SendLen(a) \/ SendOwnLen(a) \/ SendOwn(a)
    \/ RecvPrefix(a) \/ Alloc(a) \/ RecvVersion(a) \/ Report(a) \/ Done(a)

\* the Go scheduler runs every goroutine that can take a step; nothing
\* obliges a peer to answer or to close
FairSpec ==
    /\ Spec
    /\ WF_vars(Main)
    /\ \A a \in Addr : WF_vars(Probe(a))

\* ------------------------------------------------------------------ two files
\* The two-file program, src/unnamed/part_000, run on its own: the N-file
\* program above stays where it is before it starts.
programVars == <<mainVars, taskVars, out>>

AddrLine(address) == [kind |-> "addr", a |-> address, v |-> <<>>]

TwoExit(text) ==
    [two EXCEPT !.pc = "exited", !.out = Append(@, Msg(text))]

\* a program that prints only the entries of the second file that were
\* outbound peers
printsOutbound(entryKeys, entry) == entry.Address \in entryKeys /\ entry.Outbound

\* if _, exists := entryMap[entry.Address]; exists
printsEntry(entryKeys, entry) == entry.Address \in entryKeys

\* not exactly 2 paths: printUsage and return
TwoUsage ==
    /\ two.pc = "start"
    /\ two.nargs # 2
    /\ two' = [two EXCEPT !.pc = "returned",
                          !.out = Append(@, Msg("Usage: nodecmp [path1] [path2]"))]
    /\ UNCHANGED programVars

\* os.Open of the first path, then of the second; bufio.NewReader on each
TwoOpen ==
    /\ two.pc = "start"
    /\ two.nargs = 2
    /\ \E f1 \in Files, f2 \in Files :
          two' = IF ~f1.open \/ ~f2.open
                 THEN [TwoExit(errInvalidArgs) EXCEPT !.files = <<f1, f2>>]
                 ELSE [two EXCEPT !.pc = "skip", !.files = <<f1, f2>>,
                                  !.r = <<f1.data, f2.data>>]
    /\ UNCHANGED programVars

\* one turn of the loop over the metadata lines: r1.ReadLine, then r2.ReadLine
TwoSkipLine ==
    /\ two.pc = "skip"
    /\ two.i < MetaLines
    /\ LET l1 == ReadLine(two.r[1])
           l2 == ReadLine(two.r[2])
       IN  two' = IF l1.err # Nil \/ l2.err # Nil
                  THEN TwoExit(errInvalidMD)
                  ELSE [two EXCEPT !.r = <<l1.rest, l2.rest>>, !.i = @ + 1]
    /\ UNCHANGED programVars

\* d1.Decode(&entries1), then d2.Decode(&entries2)
TwoDecode ==
    /\ two.pc = "skip"
    /\ two.i = MetaLines
    /\ LET d1 == Decode(two.r[1])
           d2 == Decode(two.r[2])
       IN  two' = IF d1.err # Nil \/ d2.err # Nil
                  THEN TwoExit(errDecode)
                  ELSE [two EXCEPT !.pc = "index", !.entries = <<d1.entries, d2.entries>>]
    /\ UNCHANGED programVars

\* entryMap[entry.Address] = struct{}{} for every entry of the first file
TwoIndex ==
    /\ two.pc = "index"
    /\ two' = [two EXCEPT !.pc = "print", !.k = 1,
                          !.entryMap = {two.entries[1][j].Address :
                                           j \in 1..Len(two.entries[1])}]
    /\ UNCHANGED programVars

\* one turn of the loop over the entries of the second file
TwoPrint ==
    /\ two.pc = "print"
    /\ two.k <= Len(two.entries[2])
    /\ LET entry == two.entries[2][two.k]
       IN  two' = [two EXCEPT !.k = @ + 1,
                              !.out = IF printsEntry(two.entryMap, entry)
                                      THEN Append(@, AddrLine(entry.Address))
                                      ELSE @]
    /\ UNCHANGED programVars

\* the loop is over and main returns
TwoReturn ==
    /\ two.pc = "print"
    /\ two.k > Len(two.entries[2])
    /\ two' = [two EXCEPT !.pc = "returned"]
    /\ UNCHANGED programVars

TwoInit ==
    /\ two \in {TwoStart(n) : n \in 0..MaxArgs}
    /\ nargs = 0
    /\ mpc = "start"
    /\ idx = 0
    /\ loaded = <<>>
    /\ file = NoFile
    /\ heap = <<>>
    /\ refs = NoRefs
    /\ entryMap = EmptyMap
    /\ pending = {}
    /\ wg = 0
    /\ tpc = [a \in Addr |-> "none"]
    /\ conn = [a \in Addr |-> "none"]
    /\ peer = [a \in Addr |-> "quiet"]
    /\ inb = [a \in Addr |-> <<>>]
    /\ prefix = [a \in Addr |-> Zeros(PrefixSize)]
    /\ res = [a \in Addr |-> NoResult]
    /\ io = [a \in Addr |-> <<>>]
    /\ out = <<>>

TwoNext ==
    \/ TwoUsage
    \/ TwoOpen
    \/ TwoSkipLine
    \/ TwoDecode
    \/ TwoIndex
    \/ TwoPrint
    \/ TwoReturn

TwoSpec == TwoInit /\ [][TwoNext]_vars

\* ------------------------------------------------------------------ claims
FoldComplete == mpc = "fold" /\ idx = nargs

OrchestratorReturned == mpc = "returned" /\ nargs >= 2

Returned(a) == tpc[a] \in {"returned", "reported", "finished"}

LinesOf(a) == {k \in 1..Len(out) : out[k].kind = "line" /\ out[k].a = a}

\* C1: once main's left fold over S1..Sn (n >= 2) is complete, an address is a
\* key of entryMap if and only if it is a key of every Si.
IntersectionCorrect ==
    FoldComplete =>
        \A a \in Addr :
            (a \in DOMAIN entryMap) <=> (\A i \in 1..nargs : a \in DOMAIN loaded[i])

\* three sets were folded; b is in the first and the last but not in the
\* second, a is in all of them
IntersectionCorrectWitness ==
    /\ FoldComplete
    /\ nargs >= 3
    /\ DOMAIN entryMap = {"a"}
    /\ "b" \in DOMAIN loaded[1]
    /\ "b" \notin DOMAIN loaded[2]
    /\ "b" \in DOMAIN loaded[3]

\* C2: when main has returned from wg.Wait, standard output holds exactly one
\* line "a -> version" for every candidate whose nodeVersion returned no
\* error, carrying the version it returned, no line for a candidate whose
\* nodeVersion returned an error, and nothing else.
OutputExact ==
    OrchestratorReturned =>
        /\ \A k \in 1..Len(out) : out[k].kind = "line" /\ out[k].a \in DOMAIN entryMap
        /\ \A a \in DOMAIN entryMap :
              IF res[a].err = Nil
              THEN /\ Cardinality(LinesOf(a)) = 1
                   /\ \A k \in LinesOf(a) : out[k].v = res[a].version
              ELSE LinesOf(a) = {}

\* main returned after one probe succeeded and the other failed
OutputExactWitness ==
    /\ OrchestratorReturned
    /\ DOMAIN entryMap = Addr
    /\ res["a"].err = Nil
    /\ res["b"].err # Nil
    /\ Len(out) = 1

\* C3: no failure of a probe, whatever the peer sends, ends the process: the
\* run is never aborted from inside a goroutine.
ProbeFailureIsolated == mpc # "panic"

\* C4: every launched probe eventually finishes, so wg.Wait returns (a run
\* ended by a dying process apart).
ProbesTerminate ==
    \A a \in Addr : (tpc[a] = "dial") ~> (tpc[a] = "finished" \/ mpc = "panic")

\* C5: the counter is never negative and counts the goroutines started and
\* not yet through wg.Done; main has not returned from wg.Wait while any of
\* them is still running, and every candidate's goroutine was started.
JoinAll ==
    /\ wg >= 0
    /\ wg = Cardinality({a \in Addr : tpc[a] \notin {"none", "finished"}})
    /\ OrchestratorReturned =>
          /\ \A a \in Addr : tpc[a] \in {"none", "finished"}
          /\ \A a \in DOMAIN entryMap : tpc[a] = "finished"

\* main returned after waiting for two goroutines, one of which failed
JoinAllWitness ==
    /\ OrchestratorReturned
    /\ \A a \in Addr : tpc[a] = "finished"
    /\ res["a"].err # Nil
    /\ res["b"].err = Nil

\* C6: once the fold is complete, every key of entryMap carries the flag it
\* has in the first set S1, whatever its flags in S2..Sn.
FlagsFromFirst ==
    FoldComplete =>
        \A a \in DOMAIN entryMap :
            a \in DOMAIN loaded[1] /\ entryMap[a] = loaded[1][a]

\* a key whose flag in S2 and S3 differs from its flag in S1
FlagsFromFirstWitness ==
    /\ FoldComplete
    /\ nargs >= 3
    /\ "a" \in DOMAIN entryMap
    /\ loaded[1]["a"] = TRUE
    /\ loaded[2]["a"] = FALSE
    /\ loaded[3]["a"] = FALSE

\* C7: once a loader has printed its error, the process has exited, no
\* goroutine was started, no connection was dialled and no line was printed.
LoadErrors == {errInvalidArgs, errInvalidMD, errDecode}

LoadFailed == \E k \in 1..Len(out) : out[k].kind = "msg" /\ out[k].a \in LoadErrors

LoadFailureAborts ==
    LoadFailed =>
        /\ mpc = "exited"
        /\ \A a \in Addr : tpc[a] = "none" /\ conn[a] = "none" /\ io[a] = <<>>
        /\ \A k \in 1..Len(out) : out[k].kind # "line"

\* the third file failed to load after two files with common addresses
LoadFailureAbortsWitness ==
    /\ LoadFailed
    /\ idx = 2
    /\ nargs = 3
    /\ DOMAIN entryMap = Addr

\* C8: a nodeVersion one of whose Reads returned fewer bytes than its buffer
\* holds returns an error.
ShortRead(a) ==
    \E k \in 1..Len(io[a]) : io[a][k].op = "Read" /\ io[a][k].n < io[a][k].arg

ShortReadFails ==
    \A a \in Addr : (Returned(a) /\ ShortRead(a)) => res[a].err # Nil

\* C9: nodeVersion dials at most once and has no open connection when it has
\* returned.
DialsOf(a) == {k \in 1..Len(io[a]) : io[a][k].op = "Dial"}

ConnClosedOnReturn ==
    \A a \in Addr :
        /\ Cardinality(DialsOf(a)) <= 1
        /\ Returned(a) => conn[a] # "open"

\* C10: the calls on a probe's connection are, in this order, the dial, the
\* writes of the 8 bytes 13 0 0 0 0 0 0 0, of the 8 bytes 5 0 0 0 0 0 0 0 and
\* of "1.2.0", the Read into 8 bytes and the Read of the version; no call
\* follows a failed one, and a failed call makes nodeVersion return its error.
HandshakeOps == <<"Dial", "Write", "Write", "Write", "Read", "Read">>

HandshakeOrder ==
    \A a \in Addr :
        LET log == io[a]
            n == Len(log)
        IN  /\ n <= Len(HandshakeOps)
            /\ \A k \in 1..n : log[k].op = HandshakeOps[k]
            /\ \A k \in 1..(n - 1) : log[k].err = Nil
            /\ n >= 2 => log[2].arg = <<13, 0, 0, 0, 0, 0, 0, 0>>
            /\ n >= 3 => log[3].arg = <<5, 0, 0, 0, 0, 0, 0, 0>>
            /\ n >= 4 => log[4].arg = <<49, 46, 50, 46, 48>>
            /\ n >= 5 => log[5].arg = 8
            /\ (n >= 1 /\ log[n].err # Nil) => (Returned(a) /\ res[a].err = log[n].err)
            /\ (Returned(a) /\ res[a].err = Nil) => n = Len(HandshakeOps)

\* one probe went through all six calls, another stopped at a failed write
HandshakeOrderWitness ==
    /\ Len(io["a"]) = 6
    /\ res["a"].err = Nil
    /\ Returned("a")
    /\ Len(io["b"]) = 3
    /\ io["b"][3].err # Nil

\* a call of loadNodes has been made and file is the snapshot it read
LoadCalled == mpc \in {"fold", "exited"}

LineBreaks(s) == Cardinality({k \in 1..Len(s) : s[k].t = "nl"})

\* C11: a snapshot that opens and holds fewer than 3 line breaks makes the
\* loader print the metadata error and exit: no decode error, no peer set.
FewLineBreaksIsMetadataError ==
    (LoadCalled /\ file.open /\ LineBreaks(file.data) < 3) =>
        (mpc = "exited" /\ out[Len(out)] = Msg(errInvalidMD))

\* C12: at every moment of every interleaving, a printed line carries the
\* address of a goroutine that has reported and the version nodeVersion
\* returned, without error, for that very address.
PairingExact ==
    \A k \in 1..Len(out) :
        out[k].kind = "line" =>
            /\ tpc[out[k].a] \in {"reported", "finished"}
            /\ res[out[k].a].err = Nil
            /\ out[k].v = res[out[k].a].version

\* b printed before a, each its own version, the two versions different
PairingExactWitness ==
    /\ Len(out) = 2
    /\ out[1].a = "b"
    /\ out[2].a = "a"
    /\ out[1].v # out[2].v
    /\ res["a"].version = out[2].v

\* C13: goroutines are started for candidates only, each started goroutine
\* is counted once, once the range is over there are as many of them as
\* candidates, and no connection sees more than one dial, three writes and
\* two reads.
CallsOf(a, op) == {k \in 1..Len(io[a]) : io[a][k].op = op}

Started == {a \in Addr : tpc[a] # "none"}

SingleAttempt ==
    /\ \A a \in Addr :
          /\ Cardinality(CallsOf(a, "Dial")) <= 1
          /\ Cardinality(CallsOf(a, "Write")) <= 3
          /\ Cardinality(CallsOf(a, "Read")) <= 2
    /\ Started \subseteq DOMAIN entryMap
    /\ wg + Cardinality({a \in Addr : tpc[a] = "finished"}) = Cardinality(Started)
    /\ (mpc = "wait" \/ OrchestratorReturned) =>
          Cardinality(Started) = Cardinality(DOMAIN entryMap)

\* both candidates were probed; the dial of a failed and was not repeated
SingleAttemptWitness ==
    /\ OrchestratorReturned
    /\ Cardinality(DOMAIN entryMap) = 2
    /\ io["a"] = <<Call("Dial", <<>>, 0, IOErr)>>
    /\ res["a"].err = IOErr
    /\ Len(io["b"]) = 6

\* C14: when main folds a set S with itself, that is when every set loaded
\* so far equals the first, entryMap equals S, keys and flags.
Idempotent ==
    (mpc = "fold" /\ idx >= 2 /\ \A i \in 1..idx : loaded[i] = loaded[1]) =>
        entryMap = loaded[1]

\* the same set, with a set flag and a cleared flag, was loaded twice
IdempotentWitness ==
    /\ mpc = "fold"
    /\ idx = 2
    /\ loaded[2] = loaded[1]
    /\ loaded[1] = [x \in Addr |-> x = "a"]
    /\ entryMap = loaded[1]

\* the left fold of main over a sequence of at least one set
RECURSIVE FoldFrom(_, _, _)
FoldFrom(sets, k, acc) ==
    IF k > Len(sets) THEN acc ELSE FoldFrom(sets, k + 1, intersect(acc, sets[k]))

FoldOf(sets) == FoldFrom(sets, 2, sets[1])

\* C15: the keys of entryMap are the keys of the fold of the same sets taken
\* in any other order; for two sets, the keys of intersect(S1, S2) are the
\* keys of intersect(S2, S1).
KeysCommute ==
    (mpc = "fold" /\ idx >= 2) =>
        \A p \in Permutations(1..idx) :
            DOMAIN FoldOf([i \in 1..idx |-> loaded[p[i]]]) = DOMAIN entryMap

\* two sets with different keys and opposite flags on their common key: the
\* two orders give the same key and different flags
KeysCommuteWitness ==
    /\ mpc = "fold"
    /\ idx = 2
    /\ DOMAIN loaded[1] = Addr
    /\ DOMAIN loaded[2] = {"a"}
    /\ DOMAIN entryMap = {"a"}
    /\ entryMap # intersect(loaded[2], loaded[1])

\* C16: during the fold every object loadNodes returned still holds what it
\* held when it was returned, every earlier value of entryMap still holds
\* the fold of the sets loaded up to it, and each intersect returned an
\* object that is neither of its two arguments.
InputsUntouched ==
    mpc = "fold" =>
        /\ \A i \in 1..idx : heap[refs.loaded[i]] = loaded[i]
        /\ \A j \in 1..idx : heap[refs.results[j]] = FoldOf(SubSeq(loaded, 1, j))
        /\ \A j \in 2..idx : refs.results[j] \notin {refs.results[j - 1], refs.loaded[j]}
        /\ refs.entry = refs.results[idx]
        /\ entryMap = heap[refs.entry]

\* three sets were folded and the result has fewer keys than the first and
\* the third of them
InputsUntouchedWitness ==
    /\ mpc = "fold"
    /\ idx = 3
    /\ DOMAIN loaded[1] = Addr
    /\ DOMAIN loaded[2] = {"a"}
    /\ DOMAIN loaded[3] = Addr
    /\ DOMAIN entryMap = {"a"}
    /\ heap[refs.loaded[1]] = loaded[1]
    /\ Len(heap) = 5

\* the number whose 8 little-endian bytes readPrefix left in its buffer
PrefixValue(a) == CHOOSE v \in 0..255 : PutUint64(v) = prefix[a]

\* C17: a version returned without error has as many bytes as the prefix
\* readPrefix received says, however many bytes the peer delivered; with a
\* received prefix of 0 the version read succeeds with the empty version.
VersionLengthIsPrefix ==
    \A a \in Addr :
        /\ (Returned(a) /\ res[a].err = Nil) => Len(res[a].version) = PrefixValue(a)
        /\ (Returned(a) /\ Len(io[a]) = 6 /\ prefix[a] = <<0, 0, 0, 0, 0, 0, 0, 0>>) =>
              (res[a].err = Nil /\ res[a].version = <<>>)

\* the prefix said 2, the version Read delivered 1 byte, 2 bytes are returned
VersionLengthIsPrefixWitness ==
    /\ Returned("a")
    /\ res["a"].err = Nil
    /\ io["a"][6] = Call("Read", 2, 1, Nil)
    /\ res["a"].version = <<57, 0>>

\* the JSON array of the snapshot loadNodes read last
FileEntries == file.data[CHOOSE k \in 1..Len(file.data) : file.data[k].t = "json"].v

\* C18: the peer set loadNodes returned has exactly the addresses of the
\* array as keys, and each key carries the flag of the last entry of the
\* array with that address.
LastEntryWins ==
    mpc = "fold" =>
        LET es == FileEntries
            S == loaded[idx]
        IN  /\ DOMAIN S = {es[k].Address : k \in 1..Len(es)}
            /\ \A k \in 1..Len(es) :
                  (\A j \in (k + 1)..Len(es) : es[j].Address # es[k].Address) =>
                      S[es[k].Address] = es[k].Outbound

\* an array with two entries for a, the flag set then cleared
LastEntryWinsWitness ==
    /\ mpc = "fold"
    /\ FileEntries = <<[Address |-> "a", Outbound |-> TRUE], [Address |-> "a", Outbound |-> FALSE]>>
    /\ loaded[idx] = [x \in {"a"} |-> FALSE]

\* the addresses the two-file program has printed
TwoPrinted == {two.out[k].a : k \in {j \in 1..Len(two.out) : two.out[j].kind = "addr"}}

TwoEnded == two.pc \in {"returned", "exited"} /\ two.nargs = 2

\* C19: when the two-file program has ended on two files that loadNodes
\* loads, it returned and the addresses it printed are the keys of
\* intersect(loadNodes(file1), loadNodes(file2)); when loadNodes fails on
\* one of them, it exited and printed no address.
TwoFileSameCandidates ==
    TwoEnded =>
        LET s1 == loadNodes(two.files[1])
            s2 == loadNodes(two.files[2])
        IN  IF s1.err = Nil /\ s2.err = Nil
            THEN two.pc = "returned" /\ TwoPrinted = DOMAIN intersect(s1.set, s2.set)
            ELSE two.pc = "exited" /\ TwoPrinted = {}

\* the second file lists a twice and b once, the first file only a: a is
\* printed twice and is the one candidate
TwoFileSameCandidatesWitness ==
    /\ two.pc = "returned"
    /\ two.nargs = 2
    /\ Len(two.entries[2]) = 2
    /\ two.entries[2][1].Address = "a"
    /\ two.entries[2][2].Address = "a"
    /\ two.entryMap = {"a"}
    /\ Len(two.out) = 2
    /\ TwoPrinted = {"a"}

====
